---------------------------- MODULE Spec2Model ----------------------------
(***************************************************************************)
(* A model of src/llvip/script.py: the Lightning training driver of the    *)
(* conditional consistency model (LitImprovedConsistencyModel), the paired *)
(* dataset and its loader, the EMA shadow network, the monitoring sampler   *)
(* invocation and the UNet checkpoint round trip.                          *)
(*                                                                         *)
(* ImprovedConsistencyTraining, ConsistencySamplingAndEditing and          *)
(* update_ema_model_ are imported from improved_consistency_model_          *)
(* conditional (script.py:23-28); they are modelled from their contracts.  *)
(* Real numbers are exact rationals <<numerator, denominator>>.            *)
(***************************************************************************)
EXTENDS Integers, Sequences, FiniteSets

(***************************************************************************)
(* Bounds of the model.                                                    *)
(***************************************************************************)
MaxSteps == 3
MaxAccum == 2
DatasetLen == 2

VARIABLES
    \* ---- training driver (run_training, Trainer.fit, the Lightning hooks)
    cfg,          \* the configuration the run was started with
    dataset,      \* PairedDataset: per index, "ok" or "mismatch"
    pc,           \* position of the serial training loop
    global_step,  \* trainer.global_step: optimizer steps completed
    batch_idx,    \* index of the current batch within the epoch
    remaining,    \* dataset indices the shuffled epoch has not yielded yet
    batch,        \* the items of the current batch (what __getitem__ returned)
    online,       \* self.model parameters: name -> rational
    shadow,       \* self.ema_model parameters: name -> rational
    stepped,      \* the optimizer applied an update during the current batch
    emaDone,      \* update_ema_model_ ran during the current batch
    optCount,     \* optimizer updates applied so far
    emaCount,     \* update_ema_model_ calls so far
    evalCount,    \* network evaluations made by the objective so far
    lossCount,    \* losses returned by training_step so far
    samplerCall,  \* arguments of the last consistency_sampling call, or NoCall
    logged,       \* titles handed to __log_images
    error,        \* the exception that ended the run, or "none"
    emaHist,      \* history of the EMA calls: the shadow before the last call,
                  \* the online values it read, the number of consecutive calls
                  \* that read these same online values, and the distances to
                  \* them before the first of those calls
    \* ---- ConsistencySamplingAndEditing, one call
    s_pc,         \* position inside one sample call
    s_sigmas,     \* the sigma sequence of the call
    s_clip,       \* clip_denoised
    s_y,          \* shape of the initial noise
    s_cond,       \* shape of the condition image, or NoCond
    s_x,          \* the current image (pixel values)
    s_i,          \* index of the sigma being consumed
    s_evals,      \* network evaluations made
    s_injects,    \* noise injections made
    s_raw,        \* the last boundary-wrapped network output, before clipping
    s_est,        \* the last estimate
    s_log,        \* images handed to the logger
    \* ---- UNet.save_pretrained / UNet.from_pretrained
    c_pc, c_net, c_disk, c_loaded,
    \* ---- the noise schedule of ImprovedConsistencyTraining over one run
    n_pc,         \* "call" before the schedule is computed for n_step, "ret" after
    n_cfg,        \* initial_timesteps, final_timesteps, max_steps, sigma roots, rho
    n_step,       \* the training step the schedule is computed for
    n_num,        \* discretization_steps(n_step, max_steps)
    n_sigmas,     \* sigmas_for(n_num)
    \* ---- UNet.forward, one pass
    u_pc,         \* the loop of forward being run
    u_config,     \* the UNetConfig of the network
    u_net,        \* the module lists UNet.__init__ built
    u_i,          \* index of the next block of the current loop
    u_h,          \* the current activation h: channels and spatial size
    u_top,        \* top_encoder_embeddings
    u_mid,        \* mid_encoder_embeddings
    u_pushes,     \* appends made so far
    u_pops,       \* pops made so far
    u_res,        \* residual blocks run so far: encoder and decoder
    u_cat,        \* the last torch.cat of h with a popped activation
    u_error       \* the exception that ended the pass, or "none"

tvars == <<cfg, dataset, pc, global_step, batch_idx, remaining, batch, online,
           shadow, stepped, emaDone, optCount, emaCount, evalCount, lossCount,
           samplerCall, logged, error, emaHist>>
svars == <<s_pc, s_sigmas, s_clip, s_y, s_cond, s_x, s_i, s_evals, s_injects,
           s_raw, s_est, s_log>>
cvars == <<c_pc, c_net, c_disk, c_loaded>>
nvars == <<n_pc, n_cfg, n_step, n_num, n_sigmas>>
uvars == <<u_pc, u_config, u_net, u_i, u_h, u_top, u_mid, u_pushes, u_pops,
           u_res, u_cat, u_error>>
vars == <<tvars, svars, cvars, nvars, uvars>>

(***************************************************************************)
(* Exact arithmetic standing for tensor arithmetic.                        *)
(***************************************************************************)
Abs(x) == IF x < 0 THEN -x ELSE x
Min(a, b) == IF a <= b THEN a ELSE b
Max(a, b) == IF a >= b THEN a ELSE b

RECURSIVE GCD(_, _)
GCD(a, b) == IF b = 0 THEN a ELSE GCD(b, a % b)

LCM(a, b) == (a \div GCD(a, b)) * b

Norm(n, d) ==
    LET g == GCD(Abs(n), d)
    IN  IF n < 0 THEN <<-(Abs(n) \div g), d \div g>> ELSE <<n \div g, d \div g>>

RatInt(n) == <<n, 1>>

RatAdd(a, b) ==
    LET l == LCM(a[2], b[2])
    IN  Norm(a[1] * (l \div a[2]) + b[1] * (l \div b[2]), l)

RatNeg(a) == <<-a[1], a[2]>>
RatSub(a, b) == RatAdd(a, RatNeg(b))

RatMul(a, b) ==
    LET g1 == GCD(Abs(a[1]), b[2])
        g2 == GCD(Abs(b[1]), a[2])
        s  == IF (a[1] < 0) # (b[1] < 0) THEN -1 ELSE 1
    IN  IF a[1] = 0 \/ b[1] = 0 THEN <<0, 1>>
        ELSE <<s * (Abs(a[1]) \div g1) * (Abs(b[1]) \div g2),
               (a[2] \div g2) * (b[2] \div g1)>>

RatAbs(a) == <<Abs(a[1]), a[2]>>
RatLeq(a, b) == a[1] * b[2] <= b[1] * a[2]
\* a < b, by the sign of b - a.
RatLess(a, b) == RatSub(b, a)[1] > 0

RECURSIVE RatPow(_, _)
RatPow(a, k) == IF k = 0 THEN <<1, 1>> ELSE RatMul(a, RatPow(a, k - 1))

(***************************************************************************)
(* Configuration.                                                          *)
(***************************************************************************)
\* LitImprovedConsistencyModelConfig.sampling_sigmas, in thousandths.
sampling_sigmas ==
    << <<80000>>, <<80000, 661>>, <<80000, 24400, 5840, 900, 661>> >>

\* LitImprovedConsistencyModelConfig.num_samples
num_samples == 8

\* UNetConfig.channels
channels == 3

\* ema_decay_rate values the model runs with (the default is 0.99993).
Decays == {<<1, 2>>, <<3, 4>>}

\* (sigma_min, sigma_max) of the training objective, in thousandths.
SigmaRanges == {<<2, 80000>>, <<80000, 2>>}

\* (initial_timesteps, final_timesteps) of the training objective.
TimestepRanges == {<<1, 3>>, <<2, 3>>}

Configs ==
    [ accumulate_grad_batches : 1..MaxAccum,
      max_steps : {MaxSteps},
      sample_every_n_steps : {2, 5},
      ema_decay_rate : Decays,
      sigma_range : SigmaRanges,
      timesteps : TimestepRanges,
      batch_size : {1, 2} ]

\* Parameter names of the network: a trained weight, and NoiseLevelEmbedding.W,
\* a Parameter created with requires_grad=False.
ParamNames == {"weight", "W"}
Trainable == {"weight"}

\* Values torch's random initialisation may give the online network.
InitParams ==
    { [n \in ParamNames |-> IF n = "weight" THEN RatInt(w) ELSE RatInt(1)] : w \in {0, 2} }

\* The shape standing for an argument that was not passed.
NoCond == [b |-> 0, c |-> 0, hw |-> 0]
NoCall == [model |-> "none", y |-> NoCond, sigmas |-> <<>>, cond |-> NoCond, clip |-> FALSE]


(***************************************************************************)
(* PairedDataset and the DataLoader.                                       *)
(***************************************************************************)
None == "None"
Datasets == [1..DatasetLen -> {"ok", "mismatch"}]

\* PairedDataset.__getitem__: None for a pair of different sizes, else the pair.
getitem(ds, index) == IF ds[index] = "mismatch" THEN None ELSE "pair"

\* The batches the shuffling loader can yield next: batch_size indices of the
\* epoch's remaining ones (fewer at the end of the epoch).
NextBatches(rem, batch_size) ==
    {B \in SUBSET rem : Cardinality(B) = Min(batch_size, Cardinality(rem))}

\* train_dataloader passes no collate_fn: the default collate takes tensors and
\* raises TypeError on a None entry.
default_collate(items) ==
    IF \E i \in DOMAIN items : items[i] = None THEN "TypeError" ELSE "ok"

(***************************************************************************)
(* ImprovedConsistencyTraining.                                            *)
(***************************************************************************)
\* n/d rounded to the nearest integer (n >= 0, d > 0).
Round(n, d) == (2 * n + d) \div (2 * d)

Clamp(x, lo, hi) == Min(Max(x, lo), hi)

\* A schedule that counts interval boundaries where the contract counts
\* intervals.
discretization_steps_boundaries(step, max_steps, ts) ==
    Clamp(ts[1] + Round((ts[2] - ts[1]) * step * step, max_steps * max_steps),
          ts[1], ts[2]) + 1

\* Power-curve interpolation from initial_timesteps to final_timesteps.
discretization_steps(step, max_steps, ts) ==
    Clamp(ts[1] + Round((ts[2] - ts[1]) * step * step, max_steps * max_steps),
          ts[1], ts[2])

\* A grid whose last point stops one interval short of sigma_max.
sigmas_for_open(num_steps, root_min, root_max, rho) ==
    [k \in 1..num_steps |->
        RatPow(RatAdd(root_min,
                      RatMul(Norm(k - 1, num_steps), RatSub(root_max, root_min))), rho)]

\* sigmas_for(num_steps): the grid linear in sigma^(1/rho) from sigma_min to
\* sigma_max. The two ends are given by their rho-th roots root_min and
\* root_max, so that every value is an exact rational:
\*   (root_min + i/(num_steps-1) * (root_max - root_min))^rho, i = 0..num_steps-1,
\* and the single value sigma_max when num_steps = 1.
sigmas_for(num_steps, root_min, root_max, rho) ==
    IF num_steps = 1 THEN <<RatPow(root_max, rho)>>
    ELSE [k \in 1..num_steps |->
            RatPow(RatAdd(root_min,
                          RatMul(Norm(k - 1, num_steps - 1),
                                 RatSub(root_max, root_min))), rho)]

\* The objective validates its schedule before any computation.
ConsistencyTraining(c, step) ==
    IF discretization_steps(step, c.max_steps, c.timesteps) < 2
       \/ c.sigma_range[1] >= c.sigma_range[2]
    THEN [status |-> "InvalidScheduleConfig", evals |-> 0]
    ELSE [status |-> "ok", evals |-> 2]

(***************************************************************************)
(* The two networks, the optimizer and the EMA update.                     *)
(***************************************************************************)
\* configure_optimizers: Adam over self.model.parameters().
configure_optimizers == {<<"model", n>> : n \in ParamNames}

\* __init__ freezes every ema_model parameter; NoiseLevelEmbedding.W is
\* created frozen in both networks.
requires_grad(p) == p[1] = "model" /\ p[2] \in Trainable

\* The parameters an optimizer update may change.
OptimizerTargets == {p \in configure_optimizers : requires_grad(p)}

\* Changes one Adam update may make to a parameter.
Deltas == {-1, 0, 1}

ApplyDelta(params, net, delta) ==
    [n \in ParamNames |->
        IF <<net, n>> \in OptimizerTargets THEN RatAdd(params[n], RatInt(delta))
        ELSE params[n]]

\* shadow <- decay * shadow + (1 - decay) * online, for every parameter.
update_ema_model_(model, ema_model, decay) ==
    [n \in DOMAIN ema_model |->
        RatAdd(RatMul(decay, ema_model[n]),
               RatMul(RatSub(RatInt(1), decay), model[n]))]

\* on_train_batch_end's call: update_ema_model_(self.model, self.ema_model, ...)
ema_call_targets_swapped == <<"ema_model", "model">>
ema_call_targets == <<"model", "ema_model">>

ema_call_decay_alpha == RatSub(RatInt(1), cfg.ema_decay_rate)
ema_call_decay == cfg.ema_decay_rate

Net(name) == IF name = "model" THEN online ELSE shadow

\* (self.global_step + 1) % sample_every_n_steps == 0 or self.global_step == 0
should_sample ==
    (global_step + 1) % cfg.sample_every_n_steps = 0 \/ global_step = 0

(***************************************************************************)
(* The monitoring sampler invocation.                                      *)
(***************************************************************************)
\* Shape of the visible images of a batch of b pairs: (b, channels, H, W).
BatchShape(b) == [b |-> b, c |-> channels, hw |-> 1]

\* The arguments __sample_and_log_samples hands to consistency_sampling for
\* the i-th sigma sequence: ema_model, noise, sigmas, clip_denoised=True.
\* No condition image is among them.
sampler_call(i, items) ==
    [ model |-> "ema_model",
      y |-> BatchShape(Min(num_samples, Cardinality(DOMAIN items))),
      sigmas |-> sampling_sigmas[i],
      cond |-> NoCond,
      clip |-> TRUE ]

\* UNet.forward(x, noise_level, v): torch.cat([x, v], dim=1) and the input
\* projection of 2 * channels inputs need a v of x's shape.
forward_accepts(x, v) == v # NoCond /\ v = x /\ x.c = channels

\* The sampler evaluates the network on (noisy image, sigma, condition).
ConsistencySampling(call) ==
    IF forward_accepts(call.y, call.cond) THEN "ok" ELSE "TypeError"

(***************************************************************************)
(* Idle values of the variables a specification does not use.              *)
(***************************************************************************)
SamplerIdle ==
    /\ s_pc = "idle" /\ s_sigmas = <<>> /\ s_clip = FALSE /\ s_y = <<>>
    /\ s_cond = NoCond /\ s_x = <<>> /\ s_i = 0 /\ s_evals = 0 /\ s_injects = 0
    /\ s_raw = <<>> /\ s_est = <<>> /\ s_log = <<>>

CheckpointIdle ==
    /\ c_pc = "idle" /\ c_net = <<>> /\ c_disk = <<>> /\ c_loaded = <<>>

TrainerIdle ==
    /\ cfg = <<>> /\ dataset = <<>> /\ pc = "idle" /\ global_step = 0
    /\ batch_idx = 0 /\ remaining = {} /\ batch = <<>> /\ online = <<>>
    /\ shadow = <<>> /\ stepped = FALSE /\ emaDone = FALSE /\ optCount = 0
    /\ emaCount = 0 /\ evalCount = 0 /\ lossCount = 0 /\ samplerCall = NoCall
    /\ logged = <<>> /\ error = "none" /\ emaHist = <<>>

ScheduleIdle ==
    /\ n_pc = "idle" /\ n_cfg = <<>> /\ n_step = 0 /\ n_num = 0 /\ n_sigmas = <<>>

NoCat == [hc |-> 0, hr |-> 0, sc |-> 0, sr |-> 0, block_in |-> 0]

ForwardIdle ==
    /\ u_pc = "idle" /\ u_config = <<>> /\ u_net = <<>> /\ u_i = 0 /\ u_h = <<>>
    /\ u_top = <<>> /\ u_mid = <<>> /\ u_pushes = 0 /\ u_pops = 0
    /\ u_res = <<0, 0>> /\ u_cat = NoCat /\ u_error = "none"

(***************************************************************************)
(* run_training: the state when trainer.fit starts its first batch.        *)
(***************************************************************************)
Init ==
    /\ cfg \in Configs
    /\ dataset \in Datasets
    /\ pc = "fetch"
    /\ global_step = 0
    /\ batch_idx = 0
    /\ remaining = 1..DatasetLen
    /\ batch = <<>>
    /\ online \in InitParams
    /\ shadow = online          \* ema_model.load_state_dict(model.state_dict())
    /\ stepped = FALSE
    /\ emaDone = FALSE
    /\ optCount = 0
    /\ emaCount = 0
    /\ evalCount = 0
    /\ lossCount = 0
    /\ samplerCall = NoCall
    /\ logged = <<>>
    /\ error = "none"
    /\ emaHist = [shadow |-> shadow, online |-> online, run |-> 0,
                  dist0 |-> [n \in ParamNames |-> <<0, 1>>]]
    /\ SamplerIdle
    /\ CheckpointIdle
    /\ ScheduleIdle
    /\ ForwardIdle

\* The loader yields the next batch: __getitem__ per index, then collation.
FetchBatch ==
    /\ pc = "fetch"
    /\ \E B \in NextBatches(remaining, cfg.batch_size) :
          LET items == [i \in B |-> getitem(dataset, i)]
          IN  /\ batch' = items
              /\ remaining' = remaining \ B
              /\ IF default_collate(items) = "ok"
                 THEN pc' = "training_step" /\ error' = error
                 ELSE pc' = "failed" /\ error' = default_collate(items)
    /\ UNCHANGED <<cfg, dataset, global_step, batch_idx, online, shadow, stepped,
                   emaDone, optCount, emaCount, evalCount, lossCount,
                   samplerCall, logged, emaHist, svars, cvars, nvars, uvars>>

\* training_step with the objective's exception swallowed: no loss is
\* returned, the optimizer update is skipped and the batch goes on.
training_step_swallow ==
    /\ pc = "training_step"
    /\ LET out == ConsistencyTraining(cfg, global_step)
       IN  /\ evalCount' = evalCount + out.evals
           /\ IF out.status = "ok"
              THEN pc' = "optimizer" /\ lossCount' = lossCount + 1
              ELSE pc' = "batch_end" /\ lossCount' = lossCount
    /\ UNCHANGED <<cfg, dataset, global_step, batch_idx, remaining, batch, online,
                   shadow, stepped, emaDone, optCount, emaCount, samplerCall,
                   logged, error, emaHist, svars, cvars, nvars, uvars>>

\* training_step: the objective on the online network, then the loss.
training_step ==
    /\ pc = "training_step"
    /\ LET out == ConsistencyTraining(cfg, global_step)
       IN  /\ evalCount' = evalCount + out.evals
           /\ IF out.status = "ok"
              THEN pc' = "optimizer" /\ lossCount' = lossCount + 1 /\ error' = error
              ELSE pc' = "failed" /\ lossCount' = lossCount /\ error' = out.status
    /\ UNCHANGED <<cfg, dataset, global_step, batch_idx, remaining, batch, online,
                   shadow, stepped, emaDone, optCount, emaCount, samplerCall,
                   logged, emaHist, svars, cvars, nvars, uvars>>

\* Backward, then the optimizer update when the accumulation window closes
\* (every accumulate_grad_batches batches, and at the last batch of an epoch).
OptimizerStep ==
    /\ pc = "optimizer"
    /\ IF (batch_idx + 1) % cfg.accumulate_grad_batches = 0 \/ remaining = {}
       THEN \E delta \in Deltas :
               /\ online' = ApplyDelta(online, "model", delta)
               /\ shadow' = ApplyDelta(shadow, "ema_model", delta)
               /\ global_step' = global_step + 1
               /\ optCount' = optCount + 1
               /\ stepped' = TRUE
       ELSE UNCHANGED <<online, shadow, global_step, optCount, stepped>>
    /\ pc' = "batch_end"
    /\ UNCHANGED <<cfg, dataset, batch_idx, remaining, batch, emaDone, emaCount,
                   evalCount, lossCount, samplerCall, logged, error, emaHist,
                   svars, cvars, nvars, uvars>>

\* on_train_batch_end, line 542: the EMA update.
on_train_batch_end_ema ==
    /\ pc = "batch_end"
    /\ LET src == ema_call_targets[1]
           dst == ema_call_targets[2]
           new == update_ema_model_(Net(src), Net(dst), ema_call_decay)
       IN  /\ shadow' = IF dst = "ema_model" THEN new ELSE shadow
           /\ online' = IF dst = "model" THEN new ELSE online
    /\ LET same == emaHist.run > 0 /\ online = emaHist.online
       IN  emaHist' = [ shadow |-> shadow,
                        online |-> online,
                        run |-> IF same THEN emaHist.run + 1 ELSE 1,
                        dist0 |-> IF same THEN emaHist.dist0
                                  ELSE [n \in ParamNames |->
                                           RatAbs(RatSub(shadow[n], online[n]))] ]
    /\ emaCount' = emaCount + 1
    /\ emaDone' = TRUE
    /\ pc' = "batch_end_sample"
    /\ UNCHANGED <<cfg, dataset, global_step, batch_idx, remaining, batch, stepped,
                   optCount, evalCount, lossCount, samplerCall, logged, error,
                   svars, cvars, nvars, uvars>>

\* on_train_batch_end, lines 544-547: periodic sampling from the EMA network.
\* __sample_and_log_samples logs the ground truth, then calls the sampler for
\* each configured sigma sequence; an exception of the first call ends the run.
on_train_batch_end_sample ==
    /\ pc = "batch_end_sample"
    /\ IF should_sample
       THEN LET call == sampler_call(1, batch)
            IN  /\ samplerCall' = call
                /\ IF ConsistencySampling(call) = "ok"
                   THEN /\ logged' = logged \o <<"ground_truth">>
                                     \o [i \in 1..Len(sampling_sigmas) |-> "generated_samples"]
                        /\ pc' = "advance"
                        /\ error' = error
                   ELSE /\ logged' = Append(logged, "ground_truth")
                        /\ pc' = "failed"
                        /\ error' = ConsistencySampling(call)
       ELSE /\ pc' = "advance"
            /\ UNCHANGED <<samplerCall, logged, error>>
    /\ UNCHANGED <<cfg, dataset, global_step, batch_idx, remaining, batch, online,
                   shadow, stepped, emaDone, optCount, emaCount, evalCount,
                   lossCount, emaHist, svars, cvars, nvars, uvars>>

\* The fit loop goes on to the next batch, or ends at max_steps.
Advance ==
    /\ pc = "advance"
    /\ stepped' = FALSE
    /\ emaDone' = FALSE
    /\ IF global_step >= cfg.max_steps
       THEN pc' = "fit_done" /\ UNCHANGED <<batch_idx, remaining>>
       ELSE /\ pc' = "fetch"
            /\ IF remaining = {}
               THEN batch_idx' = 0 /\ remaining' = 1..DatasetLen
               ELSE batch_idx' = batch_idx + 1 /\ remaining' = remaining
    /\ UNCHANGED <<cfg, dataset, global_step, batch, online, shadow, optCount,
                   emaCount, evalCount, lossCount, samplerCall, logged, error,
                   emaHist, svars, cvars, nvars, uvars>>

\* run_training, line 641: the online network is saved once fit returns.
SaveModel ==
    /\ pc = "fit_done"
    /\ pc' = "saved"
    /\ UNCHANGED <<cfg, dataset, global_step, batch_idx, remaining, batch, online,
                   shadow, stepped, emaDone, optCount, emaCount, evalCount,
                   lossCount, samplerCall, logged, error, emaHist, svars, cvars, nvars, uvars>>

Next ==
    \/ FetchBatch
    \/ training_step
    \/ OptimizerStep
    \/ on_train_batch_end_ema
    \/ on_train_batch_end_sample
    \/ Advance
    \/ SaveModel

Spec == Init /\ [][Next]_vars

(***************************************************************************)
(* ConsistencySamplingAndEditing: one call, and the driver's handling of   *)
(* its result (__sample_and_log_samples, lines 580-587; __log_images).     *)
(***************************************************************************)
\* Pixels of an image and the values a pixel may take; the valid range is
\* -1..1, the rest stands for values outside it.
NPix == 2
PixMax == 2
Tensors == [1..NPix -> -PixMax..PixMax]

\* Tensor.clamp(min=-1.0, max=1.0)
clamp_min_only(t) == [i \in DOMAIN t |-> Max(t[i], -1)]
clamp(t) == [i \in DOMAIN t |-> Clamp(t[i], -1, 1)]

\* Scaled noise samples added between two evaluations.
NoiseTensors == {[i \in 1..NPix |-> v] : v \in {-1, 0, 1}}

InRange(t) == \A i \in DOMAIN t : -1 <= t[i] /\ t[i] <= 1

\* __log_images: the image is clamped once more before the grid is made.
log_images(images) == clamp(images)

\* Sigma sequences a call may be given: the configured ones and short others.
SigmaSeqs ==
    {sampling_sigmas[i] : i \in 1..Len(sampling_sigmas)}
        \cup {<<661>>, <<900, 661>>, <<80000, 900, 661>>}

\* The index after which the refinement loop ends.
last_index_early(sigmas) == Min(Len(sigmas), 2)
last_index(sigmas) == Len(sigmas)

SInit ==
    /\ TrainerIdle
    /\ CheckpointIdle
    /\ ScheduleIdle
    /\ ForwardIdle
    /\ s_pc = "eval"
    /\ s_sigmas \in SigmaSeqs
    /\ s_clip \in BOOLEAN
    /\ s_y = BatchShape(1)
    /\ s_cond \in {BatchShape(1), BatchShape(2), NoCond}
    /\ s_x \in {[i \in 1..NPix |-> v] : v \in {-PixMax, 0, PixMax}}  \* initial noise
    /\ s_i = 1
    /\ s_evals = 0
    /\ s_injects = 0
    /\ s_raw = <<>>
    /\ s_est = <<>>
    /\ s_log = <<>>

\* One boundary-wrapped network evaluation at sigmas[s_i]; the network's
\* output is arbitrary.
S_Evaluate ==
    /\ s_pc = "eval"
    /\ IF forward_accepts(s_y, s_cond)
       THEN \E out \in Tensors :
               LET est == IF s_clip THEN clamp(out) ELSE out
               IN  /\ s_raw' = out
                   /\ s_est' = est
                   /\ s_x' = est
                   /\ s_evals' = s_evals + 1
                   /\ s_pc' = IF s_i >= last_index(s_sigmas) THEN "done" ELSE "inject"
       ELSE /\ s_pc' = "failed"
            /\ UNCHANGED <<s_raw, s_est, s_x, s_evals>>
    /\ UNCHANGED <<s_sigmas, s_clip, s_y, s_cond, s_i, s_injects, s_log, tvars, cvars, nvars, uvars>>

\* Fresh noise scaled by sqrt(sigma^2 - sigma_min^2) is added for the next sigma.
S_Inject ==
    /\ s_pc = "inject"
    /\ \E noise \in NoiseTensors :
          s_x' = [i \in DOMAIN s_x |-> Clamp(s_x[i] + noise[i], -PixMax, PixMax)]
    /\ s_i' = s_i + 1
    /\ s_injects' = s_injects + 1
    /\ s_pc' = "eval"
    /\ UNCHANGED <<s_sigmas, s_clip, s_y, s_cond, s_evals, s_raw, s_est, s_log,
                   tvars, cvars, nvars, uvars>>

\* The driver clamps the returned samples and hands them to __log_images.
S_Log ==
    /\ s_pc = "done"
    /\ s_log' = Append(s_log, log_images(clamp(s_x)))
    /\ s_pc' = "logged"
    /\ UNCHANGED <<s_sigmas, s_clip, s_y, s_cond, s_x, s_i, s_evals, s_injects,
                   s_raw, s_est, tvars, cvars, nvars, uvars>>

SNext == S_Evaluate \/ S_Inject \/ S_Log

SpecSampler == SInit /\ [][SNext]_vars

(***************************************************************************)
(* UNet construction, save_pretrained and from_pretrained.                 *)
(* A Python tuple or list is [kind, items]; json turns tuples into lists.  *)
(***************************************************************************)
Tuple(items) == [kind |-> "tuple", items |-> items]
PyError == [kind |-> "error", items |-> <<>>]

\* a + b on two sequences: defined for two tuples or two lists only.
PyConcat(a, b) ==
    IF a.kind = b.kind /\ a.kind # "error"
    THEN [kind |-> a.kind, items |-> a.items \o b.items]
    ELSE PyError

\* a[:1] and a[-1:]
PyFirst(a) == [kind |-> a.kind, items |-> SubSeq(a.items, 1, Min(1, Len(a.items)))]
PyLast(a) == [kind |-> a.kind, items |-> SubSeq(a.items, Max(1, Len(a.items)), Len(a.items))]

Reverse(q) == [i \in 1..Len(q) |-> q[Len(q) + 1 - i]]

\* Blocks one resolution of the encoder adds: n blocks, the first from
\* in_channels, then an optional Downsample.
EncoderStage(kind, in, out, n, resample) ==
    [j \in 1..n |-> [type |-> kind, in |-> IF j = 1 THEN in ELSE out, out |-> out]]
        \o (IF resample THEN <<[type |-> "Downsample", in |-> out, out |-> out]>> ELSE <<>>)

RECURSIVE EncoderFrom(_, _, _, _, _)
EncoderFrom(kind, ch, nb, rs, idx) ==
    IF idx > Len(ch) - 1 THEN <<>>
    ELSE EncoderStage(kind, ch[idx], ch[idx + 1], nb[idx], rs[idx])
            \o EncoderFrom(kind, ch, nb, rs, idx + 1)

\* UNet._make_encoder_blocks
make_encoder_blocks(kind, ch, nb, rs) == EncoderFrom(kind, ch, nb, rs, 1)

\* Blocks one resolution of the decoder adds: an optional Upsample, then n
\* blocks of 2 * in_channels inputs, the last one going to out_channels.
DecoderStage(kind, out, in, n, resample) ==
    (IF resample THEN <<[type |-> "Upsample", in |-> in, out |-> in]>> ELSE <<>>)
        \o Reverse([j \in 1..n |->
                      [type |-> kind, in |-> 2 * in, out |-> IF j = 1 THEN out ELSE in]])

RECURSIVE DecoderFrom(_, _, _, _, _)
DecoderFrom(kind, ch, nb, rs, idx) ==
    IF idx > Len(ch) - 1 THEN <<>>
    ELSE LET k == Len(ch) - idx    \* the idx-th channel pair from the end
         IN  DecoderStage(kind, ch[k], ch[k + 1], Reverse(nb)[idx], Reverse(rs)[idx])
                \o DecoderFrom(kind, ch, nb, rs, idx + 1)

\* A decoder built with the per-stage settings in encoder order.
make_decoder_blocks_unreversed(kind, ch, nb, rs) ==
    DecoderFrom(kind, ch, Reverse(nb), Reverse(rs), 1)

\* UNet._make_decoder_blocks
make_decoder_blocks(kind, ch, nb, rs) == DecoderFrom(kind, ch, nb, rs, 1)

\* The two channel sequences UNet.__init__ hands to the block makers.
TopChannels(config) ==
    PyConcat(config.top_blocks_channels, PyFirst(config.mid_blocks_channels))
MidChannels(config) ==
    PyConcat(config.mid_blocks_channels, PyLast(config.mid_blocks_channels))

\* UNet.__init__ raises when a concatenation does.
BuildOk(config) ==
    TopChannels(config).kind # "error" /\ MidChannels(config).kind # "error"

\* UNet.__init__: the module lists a configuration builds.
BuildUNet(config) ==
    [ input_projection |-> <<2 * config.channels, config.top_blocks_channels.items[1]>>,
      noise_level_embedding |-> <<config.noise_level_channels>>,
      top_encoder_blocks |->
          make_encoder_blocks("UNetBlock", TopChannels(config).items,
              config.top_blocks_n_blocks_per_resolution.items,
              config.top_blocks_has_resampling.items),
      mid_encoder_blocks |->
          make_encoder_blocks("UNetBlockWithSelfAttention", MidChannels(config).items,
              config.mid_blocks_n_blocks_per_resolution.items,
              config.mid_blocks_has_resampling.items),
      mid_decoder_blocks |->
          make_decoder_blocks("UNetBlockWithSelfAttention", MidChannels(config).items,
              config.mid_blocks_n_blocks_per_resolution.items,
              config.mid_blocks_has_resampling.items),
      top_decoder_blocks |->
          make_decoder_blocks("UNetBlock", TopChannels(config).items,
              config.top_blocks_n_blocks_per_resolution.items,
              config.top_blocks_has_resampling.items),
      output_projection |-> <<config.top_blocks_channels.items[1], config.channels>> ]

BlockLists == {"top_encoder_blocks", "mid_encoder_blocks", "mid_decoder_blocks",
               "top_decoder_blocks"}

\* Keys of state_dict(): parameter names with their shapes.
StateKeys(arch) ==
    {<<"input_projection", 0, arch.input_projection>>,
     <<"noise_level_embedding", 0, arch.noise_level_embedding>>,
     <<"output_projection", 0, arch.output_projection>>}
    \cup UNION {{<<l, i, <<arch[l][i].type, arch[l][i].in, arch[l][i].out>> >> :
                    i \in 1..Len(arch[l])} : l \in BlockLists}

\* Blocks per resolution the model's configurations go up to.
MaxBlocks == 2

\* Per-stage settings of k resolutions: (n_blocks, has_resampling) tuples.
StageSettings(k) ==
    {<<nb, rs>> : nb \in [1..k -> 1..MaxBlocks], rs \in [1..k -> BOOLEAN]}

\* The fields of UNetConfig that hold tuples.
TupleFields ==
    {"top_blocks_channels", "top_blocks_n_blocks_per_resolution",
     "top_blocks_has_resampling", "top_blocks_dropout", "mid_blocks_channels",
     "mid_blocks_n_blocks_per_resolution", "mid_blocks_has_resampling",
     "mid_blocks_dropout"}

\* UNetConfig, dropouts in tenths.
UNetConfigOf(tc, ts, mc, ms) ==
    [ channels |-> channels,
      noise_level_channels |-> 8,
      noise_level_scale |-> <<1, 50>>,
      n_heads |-> 8,
      top_blocks_channels |-> Tuple(tc),
      top_blocks_n_blocks_per_resolution |-> Tuple(ts[1]),
      top_blocks_has_resampling |-> Tuple(ts[2]),
      top_blocks_dropout |-> Tuple([i \in 1..Len(tc) |-> 0]),
      mid_blocks_channels |-> Tuple(mc),
      mid_blocks_n_blocks_per_resolution |-> Tuple(ms[1]),
      mid_blocks_has_resampling |-> Tuple(ms[2]),
      mid_blocks_dropout |-> Tuple([i \in 1..Len(mc) |-> 3]) ]

\* Mid stages: one resolution with any settings, or two with the default
\* resampling pattern (True, False).
MidChoices ==
    {<< <<8>>, ss >> : ss \in StageSettings(1)}
        \cup {<< <<8, 16>>, << <<1, 1>>, <<TRUE, FALSE>> >> >>}

UNetConfigs ==
    {UNetConfigOf(tc, ts, m[1], m[2]) :
        tc \in {<<4>>, <<4, 4>>}, ts \in StageSettings(1) \cup StageSettings(2),
        m \in MidChoices}

\* The configurations whose per-stage tuples have equal lengths.
WellFormed(config) ==
    /\ Len(config.top_blocks_n_blocks_per_resolution.items) = Len(config.top_blocks_channels.items)
    /\ Len(config.mid_blocks_n_blocks_per_resolution.items) = Len(config.mid_blocks_channels.items)

\* dataclasses.asdict keeps every tuple a tuple.
asdict(config) == config

\* json.dump writes a tuple (or a list) as an array; numbers and booleans as
\* themselves.
json_dump(d) ==
    [f \in DOMAIN d |->
        IF f \in TupleFields THEN [kind |-> "array", items |-> d[f].items] ELSE d[f]]

\* json.load reads an array as a list.
json_load(text) ==
    [f \in DOMAIN text |->
        IF f \in TupleFields THEN [kind |-> "list", items |-> text[f].items] ELSE text[f]]

\* Parameter values of a freshly constructed network (torch's random
\* initialisation, by seed).
Seeds == 0..1
fresh_state(arch, seed) == [k \in StateKeys(arch) |-> (seed + k[2]) % 3]

\* UNet(config)
NewUNet(config, seed) ==
    [config |-> config, arch |-> BuildUNet(config),
     state |-> fresh_state(BuildUNet(config), seed)]

\* UNet.save_pretrained: config.json and model.pt.
save_pretrained(net) ==
    [config_json |-> json_dump(asdict(net.config)), model_pt |-> net.state]

\* load_state_dict is strict: the saved names and shapes must be the model's.
load_state_dict_ok(net, state_dict) == DOMAIN state_dict = DOMAIN net.state

\* UNet.from_pretrained without its load_state_dict call.
from_pretrained_no_load(disk, seed) ==
    LET config == json_load(disk.config_json)
    IN  [ok |-> BuildOk(config), net |-> NewUNet(config, seed)]

\* UNet.from_pretrained: the configuration, a fresh model, then its parameters.
from_pretrained(disk, seed) ==
    LET config == json_load(disk.config_json)
        model == NewUNet(config, seed)
    IN  IF BuildOk(config) /\ load_state_dict_ok(model, disk.model_pt)
        THEN [ok |-> TRUE, net |-> [model EXCEPT !.state = disk.model_pt]]
        ELSE [ok |-> FALSE, net |-> model]

\* What UNet.forward computes is determined by the modules, their parameters
\* and the (noisy image, noise level, condition) triple.
forward(net, triple) == [arch |-> net.arch, params |-> net.state, input |-> triple]

CInit ==
    /\ TrainerIdle
    /\ SamplerIdle
    /\ ScheduleIdle
    /\ ForwardIdle
    /\ c_pc = "built"
    /\ \E config \in {c \in UNetConfigs : WellFormed(c)}, seed \in Seeds :
          c_net = NewUNet(config, seed)
    /\ c_disk = <<>>
    /\ c_loaded = <<>>

\* Training changes a parameter of the network.
C_Train ==
    /\ c_pc = "built"
    /\ \E k \in DOMAIN c_net.state :
          c_net' = [c_net EXCEPT !.state[k] = (@ + 1) % 3]
    /\ c_pc' = "trained"
    /\ UNCHANGED <<c_disk, c_loaded, tvars, svars, nvars, uvars>>

C_Save ==
    /\ c_pc \in {"built", "trained", "adopted"}
    /\ c_disk' = save_pretrained(c_net)
    /\ c_pc' = "saved"
    /\ UNCHANGED <<c_net, c_loaded, tvars, svars, nvars, uvars>>

C_Load ==
    /\ c_pc = "saved"
    /\ \E seed \in Seeds :
          LET r == from_pretrained(c_disk, seed)
          IN  /\ c_loaded' = r.net
              /\ c_pc' = IF r.ok THEN "loaded" ELSE "load_failed"
    /\ UNCHANGED <<c_net, c_disk, tvars, svars, nvars, uvars>>

\* The loaded network (its configuration now holds lists) is used in turn.
C_Adopt ==
    /\ c_pc = "loaded"
    /\ c_net.config.top_blocks_channels.kind = "tuple"
    /\ c_net' = c_loaded
    /\ c_pc' = "adopted"
    /\ UNCHANGED <<c_disk, c_loaded, tvars, svars, nvars, uvars>>

CNext == C_Train \/ C_Save \/ C_Load \/ C_Adopt

SpecCheckpoint == CInit /\ [][CNext]_vars

(***************************************************************************)
(* UNet.forward: one pass, a block per step. An activation is its channel  *)
(* count c and its spatial size r (height = width).                        *)
(***************************************************************************)
\* Spatial sizes of the input image.
Resolutions == {2, 8}

\* The configurations UNet.__init__ accepts: the block makers index the
\* per-stage settings once per channel pair.
Constructible(config) ==
    /\ BuildOk(config)
    /\ Len(config.top_blocks_n_blocks_per_resolution.items) >= Len(config.top_blocks_channels.items)
    /\ Len(config.mid_blocks_n_blocks_per_resolution.items) >= Len(config.mid_blocks_channels.items)

\* A module accepts an activation of its in_channels; Downsample's
\* rearrange needs an even size.
BlockFits(block, h) ==
    /\ h.c = block.in
    /\ block.type = "Downsample" => h.r % 2 = 0

BlockError(block, h) ==
    IF block.type = "Downsample" /\ h.r % 2 # 0 THEN "EinopsError" ELSE "ChannelError"

\* block(h)
Apply(block, h) ==
    [c |-> block.out,
     r |-> CASE block.type = "Downsample" -> h.r \div 2
             [] block.type = "Upsample" -> h.r * 2
             [] OTHER -> h.r]

\* torch.cat((h, skip), dim=1)
Cat(h, skip) == [c |-> h.c + skip.c, r |-> h.r]

\* An exception ends the pass.
Raise(e) ==
    /\ u_pc' = "failed"
    /\ u_error' = e
    /\ UNCHANGED <<u_config, u_net, u_i, u_h, u_top, u_mid, u_pushes, u_pops,
                   u_res, u_cat>>

\* The end of one loop of forward: the next loop starts at its first block.
NextLoop(loop) ==
    /\ u_pc' = loop
    /\ u_i' = 1
    /\ UNCHANGED <<u_config, u_net, u_h, u_top, u_mid, u_pushes, u_pops, u_res,
                   u_cat, u_error>>

FInit ==
    /\ u_config \in {config \in UNetConfigs : Constructible(config)}
    /\ u_net = BuildUNet(u_config)
    /\ u_pc = "input_projection"
    /\ u_i = 1
    /\ u_h \in {[c |-> u_config.channels, r |-> r] : r \in Resolutions}   \* x
    /\ u_top = <<>>
    /\ u_mid = <<>>
    /\ u_pushes = 0
    /\ u_pops = 0
    /\ u_res = <<0, 0>>
    /\ u_cat = NoCat
    /\ u_error = "none"
    /\ TrainerIdle
    /\ SamplerIdle
    /\ CheckpointIdle
    /\ ScheduleIdle

\* x = torch.cat([x, v], dim=1); h = self.input_projection(x)
U_InputProjection ==
    /\ u_pc = "input_projection"
    /\ UNCHANGED <<tvars, svars, cvars, nvars>>
    /\ LET v == [c |-> u_config.channels, r |-> u_h.r]
           x == Cat(u_h, v)
       IN  IF x.c # u_net.input_projection[1] THEN Raise("ChannelError")
           ELSE /\ u_h' = [c |-> u_net.input_projection[2], r |-> x.r]
                /\ u_pc' = "top_encoder"
                /\ UNCHANGED <<u_config, u_net, u_i, u_top, u_mid, u_pushes,
                               u_pops, u_res, u_cat, u_error>>

\* for block in self.top_encoder_blocks
U_TopEncoder ==
    /\ u_pc = "top_encoder"
    /\ UNCHANGED <<tvars, svars, cvars, nvars>>
    /\ IF u_i > Len(u_net.top_encoder_blocks) THEN NextLoop("mid_encoder")
       ELSE LET block == u_net.top_encoder_blocks[u_i]
                pushes == block.type = "UNetBlock"
            IN  IF ~BlockFits(block, u_h) THEN Raise(BlockError(block, u_h))
                ELSE /\ u_h' = Apply(block, u_h)
                     /\ u_top' = IF pushes THEN Append(u_top, u_h') ELSE u_top
                     /\ u_pushes' = IF pushes THEN u_pushes + 1 ELSE u_pushes
                     /\ u_res' = IF block.type \in {"UNetBlock", "UNetBlockWithSelfAttention"}
                                 THEN <<u_res[1] + 1, u_res[2]>> ELSE u_res
                     /\ u_i' = u_i + 1
                     /\ UNCHANGED <<u_pc, u_config, u_net, u_mid, u_pops, u_cat,
                                    u_error>>

\* for block in self.mid_encoder_blocks
U_MidEncoder ==
    /\ u_pc = "mid_encoder"
    /\ UNCHANGED <<tvars, svars, cvars, nvars>>
    /\ IF u_i > Len(u_net.mid_encoder_blocks) THEN NextLoop("mid_decoder")
       ELSE LET block == u_net.mid_encoder_blocks[u_i]
                pushes == block.type = "UNetBlockWithSelfAttention"
            IN  IF ~BlockFits(block, u_h) THEN Raise(BlockError(block, u_h))
                ELSE /\ u_h' = Apply(block, u_h)
                     /\ u_mid' = IF pushes THEN Append(u_mid, u_h') ELSE u_mid
                     /\ u_pushes' = IF pushes THEN u_pushes + 1 ELSE u_pushes
                     /\ u_res' = IF block.type \in {"UNetBlock", "UNetBlockWithSelfAttention"}
                                 THEN <<u_res[1] + 1, u_res[2]>> ELSE u_res
                     /\ u_i' = u_i + 1
                     /\ UNCHANGED <<u_pc, u_config, u_net, u_top, u_pops, u_cat,
                                    u_error>>

\* for block in self.mid_decoder_blocks
U_MidDecoder ==
    /\ u_pc = "mid_decoder"
    /\ UNCHANGED <<tvars, svars, cvars, nvars>>
    /\ IF u_i > Len(u_net.mid_decoder_blocks) THEN NextLoop("top_decoder")
       ELSE LET block == u_net.mid_decoder_blocks[u_i]
            IN  IF block.type = "UNetBlockWithSelfAttention"
                THEN IF u_mid = <<>> THEN Raise("IndexError")
                     ELSE LET skip == u_mid[Len(u_mid)]
                              h == Cat(u_h, skip)
                          IN  IF skip.r # u_h.r THEN Raise("CatError")
                              ELSE IF ~BlockFits(block, h) THEN Raise(BlockError(block, h))
                              ELSE /\ u_mid' = SubSeq(u_mid, 1, Len(u_mid) - 1)
                                   /\ u_pops' = u_pops + 1
                                   /\ u_cat' = [hc |-> u_h.c, hr |-> u_h.r, sc |-> skip.c,
                                                sr |-> skip.r, block_in |-> block.in]
                                   /\ u_h' = Apply(block, h)
                                   /\ u_res' = <<u_res[1], u_res[2] + 1>>
                                   /\ u_i' = u_i + 1
                                   /\ UNCHANGED <<u_pc, u_config, u_net, u_top,
                                                  u_pushes, u_error>>
                ELSE IF ~BlockFits(block, u_h) THEN Raise(BlockError(block, u_h))
                     ELSE /\ u_h' = Apply(block, u_h)
                          /\ u_res' = IF block.type = "UNetBlock"
                                      THEN <<u_res[1], u_res[2] + 1>> ELSE u_res
                          /\ u_i' = u_i + 1
                          /\ UNCHANGED <<u_pc, u_config, u_net, u_top, u_mid,
                                         u_pushes, u_pops, u_cat, u_error>>

\* for block in self.top_decoder_blocks
U_TopDecoder ==
    /\ u_pc = "top_decoder"
    /\ UNCHANGED <<tvars, svars, cvars, nvars>>
    /\ IF u_i > Len(u_net.top_decoder_blocks) THEN NextLoop("output_projection")
       ELSE LET block == u_net.top_decoder_blocks[u_i]
            IN  IF block.type = "UNetBlock"
                THEN IF u_top = <<>> THEN Raise("IndexError")
                     ELSE LET skip == u_top[Len(u_top)]
                              h == Cat(u_h, skip)
                          IN  IF skip.r # u_h.r THEN Raise("CatError")
                              ELSE IF ~BlockFits(block, h) THEN Raise(BlockError(block, h))
                              ELSE /\ u_top' = SubSeq(u_top, 1, Len(u_top) - 1)
                                   /\ u_pops' = u_pops + 1
                                   /\ u_cat' = [hc |-> u_h.c, hr |-> u_h.r, sc |-> skip.c,
                                                sr |-> skip.r, block_in |-> block.in]
                                   /\ u_h' = Apply(block, h)
                                   /\ u_res' = <<u_res[1], u_res[2] + 1>>
                                   /\ u_i' = u_i + 1
                                   /\ UNCHANGED <<u_pc, u_config, u_net, u_mid,
                                                  u_pushes, u_error>>
                ELSE IF ~BlockFits(block, u_h) THEN Raise(BlockError(block, u_h))
                     ELSE /\ u_h' = Apply(block, u_h)
                          /\ u_res' = IF block.type = "UNetBlockWithSelfAttention"
                                      THEN <<u_res[1], u_res[2] + 1>> ELSE u_res
                          /\ u_i' = u_i + 1
                          /\ UNCHANGED <<u_pc, u_config, u_net, u_top, u_mid,
                                         u_pushes, u_pops, u_cat, u_error>>

\* output = self.output_projection(h); return output
U_OutputProjection ==
    /\ u_pc = "output_projection"
    /\ UNCHANGED <<tvars, svars, cvars, nvars>>
    /\ IF u_h.c # u_net.output_projection[1] THEN Raise("ChannelError")
       ELSE /\ u_h' = [c |-> u_net.output_projection[2], r |-> u_h.r]
            /\ u_pc' = "returned"
            /\ UNCHANGED <<u_config, u_net, u_i, u_top, u_mid, u_pushes, u_pops,
                           u_res, u_cat, u_error>>

FNext ==
    \/ U_InputProjection
    \/ U_TopEncoder
    \/ U_MidEncoder
    \/ U_MidDecoder
    \/ U_TopDecoder
    \/ U_OutputProjection

SpecForward == FInit /\ [][FNext]_vars

(***************************************************************************)
(* The noise schedule over one training run: at every step the objective   *)
(* takes num_steps = discretization_steps(step, max_steps) and the sigma    *)
(* grid sigmas_for(num_steps).                                              *)
(***************************************************************************)
\* initial_timesteps and final_timesteps go up to MaxTimesteps, max_steps up
\* to MaxTotal, rho up to MaxRho.
MaxTimesteps == 4
MaxTotal == 6
MaxRho == 3

\* (initial_timesteps, final_timesteps, max_steps): every ordered or unordered
\* pair within the bounds, and the run of 100 steps from 2 to 11 timesteps.
ScheduleShapes ==
    {<<i, f, t>> : i \in 1..MaxTimesteps, f \in 1..MaxTimesteps, t \in 1..MaxTotal}
        \cup {<<2, 11, 100>>}

\* rho-th roots of sigma_min and sigma_max.
RootsMin == {<<1, 2>>, <<1, 1>>}
RootsMax == {<<1, 1>>, <<2, 1>>, <<3, 1>>}

ScheduleConfigs ==
    {[initial_timesteps |-> sh[1], final_timesteps |-> sh[2], max_steps |-> sh[3],
      root_min |-> a, root_max |-> b, rho |-> r] :
        sh \in ScheduleShapes, a \in RootsMin, b \in RootsMax, r \in 1..MaxRho}

sigma_min(c) == RatPow(c.root_min, c.rho)
sigma_max(c) == RatPow(c.root_max, c.rho)

\* training_step hands the objective (self.global_step, self.trainer.max_steps).
schedule_call(c, step) ==
    discretization_steps(step, c.max_steps, <<c.initial_timesteps, c.final_timesteps>>)

NInit ==
    /\ n_cfg \in ScheduleConfigs
    /\ n_pc = "call"
    /\ n_step = 0
    /\ n_num = 0
    /\ n_sigmas = <<>>
    /\ TrainerIdle
    /\ SamplerIdle
    /\ CheckpointIdle
    /\ ForwardIdle

\* The objective computes the schedule of the current step.
N_Schedule ==
    /\ n_pc = "call"
    /\ n_num' = schedule_call(n_cfg, n_step)
    /\ n_sigmas' = sigmas_for(n_num', n_cfg.root_min, n_cfg.root_max, n_cfg.rho)
    /\ n_pc' = "ret"
    /\ UNCHANGED <<n_cfg, n_step, tvars, svars, cvars, uvars>>

\* The run moves to its next step, up to max_steps.
N_Advance ==
    /\ n_pc = "ret"
    /\ n_step < n_cfg.max_steps
    /\ n_step' = n_step + 1
    /\ n_pc' = "call"
    /\ UNCHANGED <<n_cfg, n_num, n_sigmas, tvars, svars, cvars, uvars>>

NNext == N_Schedule \/ N_Advance

SpecSchedule == NInit /\ [][NNext]_vars

(***************************************************************************)
(* Properties.                                                             *)
(***************************************************************************)
Dist(a, b) == RatAbs(RatSub(a, b))

\* C1: in every training step the EMA update follows the optimizer update of
\* that step, and every sampler invocation follows the EMA update of that
\* step: objective -> optimizer update -> EMA update -> (optional) sampling.
C1_StepOrder ==
    [][ /\ (emaCount' # emaCount => stepped)
        /\ (samplerCall' # samplerCall => (stepped /\ emaDone)) ]_vars

\* C2: at every point between two batches the number of EMA updates equals
\* the number of optimizer updates applied, whatever accumulate_grad_batches.
C2_EmaOncePerOptimizerStep ==
    pc \in {"batch_end_sample", "advance", "fetch", "fit_done", "saved"}
        => emaCount = optCount

\* C3: the shadow parameters change only in the EMA update and the online
\* parameters change only in the optimizer update; the objective, the
\* sampling and every other step leave both parameter sets alone.
C3_ExclusiveWriters ==
    [][ /\ (shadow' # shadow => (pc = "batch_end" /\ emaCount' = emaCount + 1))
        /\ (online' # online => (pc = "optimizer" /\ optCount' = optCount + 1)) ]_vars

C3_Witness ==
    /\ optCount >= 2
    /\ emaCount >= 2
    /\ shadow # emaHist.shadow
    /\ shadow # online

\* C4: every sampler invocation of the driver supplies the shadow network,
\* the noise, a sigma sequence, the clip flag and a condition image of the
\* noise's batch size, spatial shape and channel count.
C4_SamplerCallComplete ==
    samplerCall # NoCall =>
        /\ samplerCall.model = "ema_model"
        /\ samplerCall.clip
        /\ Len(samplerCall.sigmas) >= 1
        /\ samplerCall.cond # NoCond
        /\ samplerCall.cond = samplerCall.y

\* C5: a batch holding a pair of mismatched resolutions (None) does not end
\* the run: the pair is skipped and training continues.
C5_MismatchTolerated ==
    (\E i \in DOMAIN batch : batch[i] = None) => pc # "failed"

InvalidSchedule ==
    \/ discretization_steps(global_step, cfg.max_steps, cfg.timesteps) < 2
    \/ cfg.sigma_range[1] >= cfg.sigma_range[2]

\* C6: a training step whose discretization step count is below 2, or whose
\* sigma_min >= sigma_max, fails with InvalidScheduleConfig with no network
\* evaluation, no loss and no parameter update, and nothing follows a failure.
C6_InvalidScheduleFailsFast ==
    [][ /\ pc # "failed"
        /\ (pc = "training_step" /\ InvalidSchedule) =>
              /\ pc' = "failed"
              /\ error' = "InvalidScheduleConfig"
              /\ evalCount' = evalCount
              /\ lossCount' = lossCount
              /\ optCount' = optCount
              /\ emaCount' = emaCount
              /\ online' = online
              /\ shadow' = shadow ]_vars

C6_Witness ==
    /\ pc = "failed"
    /\ error = "InvalidScheduleConfig"
    /\ evalCount = 0
    /\ lossCount = 0
    /\ optCount = 0
    /\ emaCount = 0

\* C7: a sample call with a sigma sequence of length k makes exactly k
\* network evaluations and k - 1 noise injections, alternating in sequence
\* order, and returns the estimate of the k-th evaluation; the configured
\* sequences have lengths 1, 2 and 5.
C7_StepCount ==
    /\ [i \in 1..Len(sampling_sigmas) |-> Len(sampling_sigmas[i])] = <<1, 2, 5>>
    /\ s_pc = "eval" => (s_evals = s_i - 1 /\ s_injects = s_i - 1 /\ s_i <= Len(s_sigmas))
    /\ s_pc = "inject" => (s_evals = s_i /\ s_injects = s_i - 1 /\ s_i < Len(s_sigmas))
    /\ s_pc \in {"done", "logged"} =>
          /\ s_evals = Len(s_sigmas)
          /\ s_injects = Len(s_sigmas) - 1
          /\ s_x = s_est
    /\ s_pc = "failed" => ~forward_accepts(s_y, s_cond)

C7_Witness ==
    /\ s_pc = "done"
    /\ s_sigmas = sampling_sigmas[3]
    /\ s_evals = 5
    /\ s_injects = 4

\* C8: with clip_denoised set every estimate and the returned image lie in
\* [-1, 1] whatever the network returns, and every image the driver logs
\* lies in [-1, 1].
C8_ClippedRange ==
    /\ (s_clip /\ s_evals > 0) => InRange(s_est)
    /\ (s_clip /\ s_pc \in {"done", "logged"}) => InRange(s_x)
    /\ \A i \in DOMAIN s_log : InRange(s_log[i])

C8_Witness ==
    /\ s_clip
    /\ s_pc = "logged"
    /\ Len(s_sigmas) >= 2
    /\ ~InRange(s_raw)
    /\ Len(s_log) = 1

Triples == {<<x, sigma, v>> : x \in {0, 1}, sigma \in {661, 80000}, v \in {0, 1}}

C10_EmaUpdate ==
    [][ emaCount' # emaCount =>
          /\ DOMAIN shadow = DOMAIN online
          /\ \A n \in DOMAIN shadow :
                /\ shadow'[n] = RatAdd(RatMul(cfg.ema_decay_rate, shadow[n]),
                                       RatMul(RatSub(RatInt(1), cfg.ema_decay_rate), online[n]))
                /\ online'[n] = online[n]
                /\ Dist(shadow'[n], online'[n])
                      = RatMul(cfg.ema_decay_rate, Dist(shadow[n], online[n]))
                /\ RatLeq(Dist(shadow'[n], online'[n]), Dist(shadow[n], online[n]))
                /\ Dist(shadow'[n], online'[n])
                      = RatMul(RatPow(cfg.ema_decay_rate, emaHist'.run), emaHist'.dist0[n]) ]_vars

C10_Witness ==
    /\ emaHist.run >= 2
    /\ \E n \in DOMAIN shadow :
          /\ shadow[n] # online[n]
          /\ shadow[n] # emaHist.shadow[n]
          /\ emaHist.dist0[n] # <<0, 1>>
          /\ Dist(shadow[n], online[n])
                = RatMul(RatPow(cfg.ema_decay_rate, emaHist.run), emaHist.dist0[n])

\* C11: with final_timesteps >= initial_timesteps, at every step 0..max_steps
\* discretization_steps(step, max_steps) is an integer within
\* [initial_timesteps, final_timesteps]; it is initial_timesteps at step 0 and
\* final_timesteps at step max_steps (2 and 11 for the run of 100 steps from
\* 2 to 11 timesteps).
C11_DiscretizationSteps ==
    (n_pc = "ret" /\ n_cfg.final_timesteps >= n_cfg.initial_timesteps) =>
        /\ n_num \in n_cfg.initial_timesteps..n_cfg.final_timesteps
        /\ n_step = 0 => n_num = n_cfg.initial_timesteps
        /\ n_step = n_cfg.max_steps => n_num = n_cfg.final_timesteps
        /\ (n_cfg.initial_timesteps = 2 /\ n_cfg.final_timesteps = 11
              /\ n_cfg.max_steps = 100) =>
                /\ n_step = 0 => n_num = 2
                /\ n_step = 100 => n_num = 11

\* The run of 100 steps has reached its last step with 11 timesteps, after
\* passing through a count strictly between the two ends.
C11_Witness ==
    /\ n_pc = "ret"
    /\ n_cfg.initial_timesteps = 2 /\ n_cfg.final_timesteps = 11
    /\ n_cfg.max_steps = 100
    /\ n_step = 100
    /\ n_num = 11
    /\ schedule_call(n_cfg, 50) \in 3..10

\* C12: with sigma_min < sigma_max, sigmas_for(n) for n >= 2 is a strictly
\* increasing sequence of exactly n values from sigma_min to sigma_max (for
\* n = 2 exactly the two ends), and for n = 1 the single value sigma_max.
C12_SigmasFor ==
    (n_pc = "ret" /\ RatLess(sigma_min(n_cfg), sigma_max(n_cfg))) =>
        /\ n_num >= 2 =>
              /\ Len(n_sigmas) = n_num
              /\ n_sigmas[1] = sigma_min(n_cfg)
              /\ n_sigmas[n_num] = sigma_max(n_cfg)
              /\ \A k \in 1..(n_num - 1) : RatLess(n_sigmas[k], n_sigmas[k + 1])
        /\ n_num = 2 => n_sigmas = <<sigma_min(n_cfg), sigma_max(n_cfg)>>
        /\ n_num = 1 => n_sigmas = <<sigma_max(n_cfg)>>

\* A grid of four values with rho = 3 between sigma_min = 1/8 and
\* sigma_max = 27 has been computed.
C12_Witness ==
    /\ n_pc = "ret"
    /\ n_num = 4
    /\ n_cfg.rho = 3
    /\ n_cfg.root_min = <<1, 2>> /\ n_cfg.root_max = <<3, 1>>
    /\ Len(n_sigmas) = 4
    /\ n_sigmas[1] = <<1, 8>> /\ n_sigmas[4] = <<27, 1>>
    /\ RatLess(n_sigmas[2], n_sigmas[3])

\* The single-value case of C12 has been computed.
C12_WitnessSingle ==
    /\ n_pc = "ret" /\ n_num = 1
    /\ RatLess(sigma_min(n_cfg), sigma_max(n_cfg))
    /\ n_sigmas = <<sigma_max(n_cfg)>>

\* Residual blocks (UNetBlock, UNetBlockWithSelfAttention) of a module list.
Residuals(blocks) ==
    Cardinality({i \in 1..Len(blocks) :
                    blocks[i].type \in {"UNetBlock", "UNetBlockWithSelfAttention"}})

\* C13: for a UNetConfig whose per-stage tuples have equal lengths (and at
\* least one block per resolution), a forward pass keeps the skip lists
\* balanced: every encoder residual block run has pushed one activation and
\* every decoder residual block run has popped one, no pop meets an empty list,
\* no concatenation or block meets a wrong size or channel count, each popped
\* activation has the size and the channel count of the decoder activation it
\* is concatenated with (2 * in_channels in all, what the block was built for),
\* and both lists are empty when forward returns.
C13_SkipsBalanced ==
    (u_pc # "idle" /\ WellFormed(u_config)) =>
        /\ u_pushes = u_res[1]
        /\ u_pops = u_res[2]
        /\ Len(u_top) + Len(u_mid) = u_pushes - u_pops
        /\ u_error \notin {"IndexError", "CatError", "ChannelError"}
        /\ u_cat # NoCat =>
              /\ u_cat.sr = u_cat.hr
              /\ u_cat.sc = u_cat.hc
              /\ u_cat.hc + u_cat.sc = u_cat.block_in
              /\ u_cat.block_in = 2 * u_cat.hc
        /\ u_pc = "returned" =>
              /\ u_top = <<>> /\ u_mid = <<>>
              /\ u_pushes = Residuals(u_net.top_encoder_blocks)
                               + Residuals(u_net.mid_encoder_blocks)
              /\ u_pops = Residuals(u_net.mid_decoder_blocks)
                             + Residuals(u_net.top_decoder_blocks)
              /\ u_pushes = u_pops

\* A pass has returned through a network of two top resolutions whose block
\* counts and resampling differ and two mid resolutions, after six pops.
C13_Witness ==
    /\ u_pc = "returned"
    /\ WellFormed(u_config)
    /\ u_config.top_blocks_n_blocks_per_resolution.items = <<1, 2>>
    /\ u_config.top_blocks_has_resampling.items = <<TRUE, FALSE>>
    /\ Len(u_config.mid_blocks_channels.items) = 2
    /\ u_pops >= 5
    /\ u_cat # NoCat
    /\ u_top = <<>> /\ u_mid = <<>>

\* A network whose per-stage tuples are longer than its channel tuple loses
\* the balance: the precondition of C13 is needed.
C13_UnbalancedWithoutPrecondition ==
    /\ ~WellFormed(u_config)
    /\ \/ u_error \in {"IndexError", "CatError", "ChannelError"}
       \/ u_pc = "returned" /\ u_top # <<>>

=============================================================================
